---- MODULE Spec2Model ----
(***************************************************************************)
(* Model of src/Dataset.py: the transforms RemoveMinimap, RemoveImage,     *)
(* SplitImages, ToTensor and Normalize, the function keys2controller and   *)
(* the class Tedd1104Dataset (__init__, __len__, __getitem__).             *)
(*                                                                         *)
(* Representation.                                                         *)
(*  - A probability or a value of random.random() is an integer number of  *)
(*    1/Den: random.random() ranges over 0..Den-1 (the interval [0.0,1.0)),*)
(*    a valid probability over 0..Den (the interval [0,1]).                *)
(*  - A float parsed from a file name is the pair <<m, e>> standing for    *)
(*    m / 10^e, with trailing zeros removed (the rounding to float32 is    *)
(*    not modelled).                                                       *)
(*  - A string is a sequence of one-character strings.                     *)
(*  - An ndarray is [src, col0, shape, zero]: the pixel at row r, column c *)
(*    (0-based) is Zeros when a rectangle of zero covers it and otherwise  *)
(*    the pixel (r, col0 + c) of the decoded file src. zero is a set of    *)
(*    half-open rectangles [r0, r1, c0, c1]. Only zeros are ever written   *)
(*    by the code, so this loses nothing.                                  *)
(***************************************************************************)
EXTENDS Integers, Sequences, FiniteSets, TLC

\* ------------------------------------------------------------ bounds
Den == 2
MaxFiles == 2
MaxH == 2
MaxW == 11
MaxKey == 60

\* ------------------------------------------------- program constants
NumFrames == 5
MinimapTop == 215
MinimapRows == 55
MinimapCols == 80
Channels == 3
ExtLen == 5
KeyPos == 6

VARIABLES
  pc,                   \* position of the modelled call
  args,                 \* arguments of Tedd1104Dataset.__init__
  dataset_files,        \* self.dataset_files
  hide_map_prob,        \* self.hide_map_prob
  dropout_images_prob,  \* self.dropout_images_prob
  keyboard_dataset,     \* self.keyboard_dataset
  globbed,              \* TRUE once glob.glob has been called
  idx,                  \* __getitem__'s idx
  img_name,             \* __getitem__'s img_name
  image,                \* the ndarray (__getitem__'s image / sample["image"])
  y,                    \* the label (sample["y"])
  result,               \* what the call gave its caller
  printed,              \* what the last step wrote to stdout
  failed,               \* TRUE once a decode of this call has failed
  before,               \* the ndarray as it entered the current stage
  coins,                \* how the tests random.random() <= prob of the call came out
  keys                  \* keys2controller's argument

vars == <<pc, args, dataset_files, hide_map_prob, dropout_images_prob,
          keyboard_dataset, globbed, idx, img_name, image, y, result,
          printed, failed, before, coins, keys>>

None == [kind |-> "None"]
Raise(err, at) == [kind |-> "raise", err |-> err, at |-> at]
Value(v) == [kind |-> "value", value |-> v]

\* ------------------------------------------------------ keys2controller
Float(n) == <<n, 0>>

\* keys2controller with the rows of keys 3 and 4 exchanged
keys2controllerSwapped(k) ==
  CASE k = 1 -> <<Float(-1), Float(-1), Float(-1)>>
    [] k = 2 -> <<Float(1), Float(-1), Float(-1)>>
    [] k = 3 -> <<Float(0), Float(1), Float(-1)>>
    [] k = 4 -> <<Float(0), Float(-1), Float(1)>>
    [] k = 5 -> <<Float(-1), Float(-1), Float(1)>>
    [] k = 6 -> <<Float(-1), Float(1), Float(-1)>>
    [] k = 7 -> <<Float(1), Float(-1), Float(1)>>
    [] k = 8 -> <<Float(1), Float(1), Float(-1)>>
    [] OTHER -> <<Float(0), Float(-1), Float(-1)>>

keys2controller(k) ==
  IF k = 1 THEN <<Float(-1), Float(-1), Float(-1)>>
  ELSE IF k = 2 THEN <<Float(1), Float(-1), Float(-1)>>
  ELSE IF k = 3 THEN <<Float(0), Float(-1), Float(1)>>
  ELSE IF k = 4 THEN <<Float(0), Float(1), Float(-1)>>
  ELSE IF k = 5 THEN <<Float(-1), Float(-1), Float(1)>>
  ELSE IF k = 6 THEN <<Float(-1), Float(1), Float(-1)>>
  ELSE IF k = 7 THEN <<Float(1), Float(-1), Float(1)>>
  ELSE IF k = 8 THEN <<Float(1), Float(1), Float(-1)>>
  ELSE <<Float(0), Float(-1), Float(-1)>>

\* ------------------------------------------------------ file names
Digits == <<"0", "1", "2", "3", "4", "5", "6", "7", "8", "9">>
IsDigit(c) == \E i \in 1..10 : Digits[i] = c
DigitOf(c) == (CHOOSE i \in 1..10 : Digits[i] = c) - 1

\* os.path.basename: what follows the last "/".
RECURSIVE Basename(_)
Basename(s) ==
  IF \A i \in 1..Len(s) : s[i] # "/" THEN s
  ELSE Basename(Tail(s))

\* s[:-n]
DropLast(s, n) == SubSeq(s, 1, Len(s) - n)

\* str.split(sep): the pieces between the separators, empty ones kept.
RECURSIVE SplitFrom(_, _, _)
SplitFrom(s, sep, cur) ==
  IF s = <<>> THEN <<cur>>
  ELSE IF Head(s) = sep THEN <<cur>> \o SplitFrom(Tail(s), sep, <<>>)
  ELSE SplitFrom(Tail(s), sep, Append(cur, Head(s)))

Split(s, sep) == SplitFrom(s, sep, <<>>)

Last(s) == s[Len(s)]

RECURSIVE DigitsValue(_, _)
DigitsValue(s, acc) ==
  IF s = <<>> THEN acc ELSE DigitsValue(Tail(s), 10 * acc + DigitOf(Head(s)))

RECURSIVE Normal(_, _)
Normal(m, e) == IF e > 0 /\ m % 10 = 0 THEN Normal(m \div 10, e - 1) ELSE <<m, e>>

\* float(x) on the decimal literals [+-]digits[.digits] and [+-].digits; every
\* other string of the modelled alphabet raises ValueError.
ParseFloat(x) ==
  LET signed == Len(x) > 0 /\ x[1] \in {"-", "+"}
      body == IF signed THEN Tail(x) ELSE x
      dots == {i \in 1..Len(body) : body[i] = "."}
      wellFormed == /\ \A i \in 1..Len(body) : IsDigit(body[i]) \/ body[i] = "."
                    /\ Cardinality(dots) <= 1
                    /\ \E i \in 1..Len(body) : IsDigit(body[i])
      digits == SelectSeq(body, IsDigit)
      e == IF dots = {} THEN 0 ELSE Len(body) - (CHOOSE i \in dots : TRUE)
      m == DigitsValue(digits, 0)
  IN IF wellFormed
     THEN Value(Normal(IF signed /\ x[1] = "-" THEN -m ELSE m, e))
     ELSE Raise("ValueError", "label")

\* [float(x) for x in os.path.basename(img_name)[:-5].split("_")[-1].split(",")]
JoystickLabel(name) ==
  LET toks == Split(Last(Split(DropLast(Basename(name), ExtLen), "_")), ",")
      vals == [i \in 1..Len(toks) |-> ParseFloat(toks[i])]
  IN IF \E i \in 1..Len(toks) : vals[i].kind = "raise"
     THEN Raise("ValueError", "label")
     ELSE Value([i \in 1..Len(toks) |-> vals[i].value])

\* keys2controller(int(os.path.basename(img_name)[-6]))
KeyboardLabel(name) ==
  LET b == Basename(name)
  IN IF Len(b) < KeyPos THEN Raise("IndexError", "label")
     ELSE IF ~IsDigit(b[Len(b) - KeyPos + 1]) THEN Raise("ValueError", "label")
     ELSE Value(keys2controller(DigitOf(b[Len(b) - KeyPos + 1])))

\* ------------------------------------------------------ ndarrays
Clip(a, n) == IF a > n THEN n ELSE a

Array(src, h, w) ==
  [src |-> src, col0 |-> 0, shape |-> <<h, w, Channels>>, zero |-> {},
   layout |-> "HWC", scale |-> "byte"]

Height(im) == im.shape[1]
Width(im) == im.shape[2]

\* a pixel written from np.zeros(...)
Zeros == [from |-> "zeros"]

\* im[r, c]: Zeros where the array was zeroed, otherwise the pixel (r, col) of
\* the file the array was decoded from
Pixel(im, r, c) ==
  IF \E z \in im.zero : z.r0 <= r /\ r < z.r1 /\ z.c0 <= c /\ c < z.c1
  THEN Zeros
  ELSE [from |-> im.src, row |-> r, col |-> im.col0 + c]

\* im[r0:r1, c0:c1] = 0, the bounds already clipped to the array
SetZero(im, r0, r1, c0, c1) ==
  IF r0 < r1 /\ c0 < c1
  THEN [im EXCEPT !.zero = @ \cup {[r0 |-> r0, r1 |-> r1, c0 |-> c0, c1 |-> c1]}]
  ELSE im

\* im[:, a:b], a view of the columns a..b-1 (clipped as Python clips a slice)
Slice(im, a, b) ==
  LET lo == Clip(a, Width(im))
      hi == Clip(b, Width(im))
      cut(z) == [r0 |-> z.r0, r1 |-> z.r1,
                 c0 |-> (IF z.c0 > lo THEN z.c0 ELSE lo) - lo,
                 c1 |-> (IF z.c1 < hi THEN z.c1 ELSE hi) - lo]
  IN [im EXCEPT !.col0 = @ + lo,
                !.shape = <<Height(im), hi - lo, im.shape[3]>>,
                !.zero = {cut(z) : z \in {q \in im.zero : q.c0 < hi /\ q.c1 > lo}}]

\* width: int = int(image.shape[1] / 5)
FrameWidth(im) == Width(im) \div NumFrames

\* random.random() <= prob
Flip(r, prob) == r <= prob

\* ------------------------------------------------------ RemoveMinimap
\* The loop of RemoveMinimap.__call__ from slot j on. The right-hand side is an
\* array of shape (55, 80, 3): numpy raises ValueError unless the target slice
\* has exactly that shape. The array is written in place, so the slots zeroed
\* before a raise stay zeroed.
RECURSIVE MinimapLoop(_, _)
MinimapLoop(im, j) ==
  IF j = NumFrames THEN [kind |-> "ok", image |-> im]
  ELSE LET r0 == Clip(MinimapTop, Height(im))
           c0 == Clip(j * FrameWidth(im), Width(im))
           c1 == Clip(j * FrameWidth(im) + MinimapCols, Width(im))
       IN IF /\ Height(im) - r0 = MinimapRows
             /\ c1 - c0 = MinimapCols
             /\ im.shape[3] = Channels
          THEN MinimapLoop(SetZero(im, r0, Height(im), c0, c1), j + 1)
          ELSE [kind |-> "raise", err |-> "ValueError", image |-> im]

\* RemoveMinimap.__call__, flip being how random.random() <= hide_map_prob
\* came out
RemoveMinimap(im, flip) ==
  IF flip THEN MinimapLoop(im, 0) ELSE [kind |-> "ok", image |-> im]

\* ------------------------------------------------------ RemoveImage
\* RemoveImage zeroing one column more than the slot
RECURSIVE DropoutLoopWide(_, _, _)
DropoutLoopWide(im, flips, j) ==
  IF j = NumFrames THEN im
  ELSE DropoutLoopWide(
         IF flips[j + 1]
         THEN SetZero(im, 0, Height(im),
                      Clip(j * FrameWidth(im), Width(im)),
                      Clip((j + 1) * FrameWidth(im) + 1, Width(im)))
         ELSE im,
         flips, j + 1)

RemoveImageWide(im, flips) == DropoutLoopWide(im, flips, 0)

\* The loop of RemoveImage.__call__ from slot j on, flips[j + 1] being how
\* random.random() <= dropout_images_prob[j] came out; the zeros written have
\* the target's own shape (image.shape[0], width, image.shape[2]).
RECURSIVE DropoutLoop(_, _, _)
DropoutLoop(im, flips, j) ==
  IF j = NumFrames THEN im
  ELSE DropoutLoop(
         IF flips[j + 1]
         THEN SetZero(im, 0, Height(im),
                      Clip(j * FrameWidth(im), Width(im)),
                      Clip((j + 1) * FrameWidth(im), Width(im)))
         ELSE im,
         flips, j + 1)

RemoveImage(im, flips) == DropoutLoop(im, flips, 0)

\* ------------------------------------------------------ SplitImages
SplitImages(im, label) ==
  LET width == FrameWidth(im)
  IN [image1 |-> Slice(im, 0, width),
      image2 |-> Slice(im, width, width * 2),
      image3 |-> Slice(im, width * 2, width * 3),
      image4 |-> Slice(im, width * 3, width * 4),
      image5 |-> Slice(im, width * 4, width * 5),
      y |-> label]

Frame(sample, j) ==
  CASE j = 1 -> sample.image1
    [] j = 2 -> sample.image2
    [] j = 3 -> sample.image3
    [] j = 4 -> sample.image4
    [] j = 5 -> sample.image5

\* ------------------------------------------------------ ToTensor, Normalize
\* image.transpose((2, 0, 1)): H x W x C becomes C x H x W
Transpose(im) ==
  [im EXCEPT !.shape = <<im.shape[3], im.shape[1], im.shape[2]>>,
             !.layout = "CHW"]

ToTensor(sample) ==
  [image1 |-> Transpose(sample.image1),
   image2 |-> Transpose(sample.image2),
   image3 |-> Transpose(sample.image3),
   image4 |-> Transpose(sample.image4),
   image5 |-> Transpose(sample.image5),
   y |-> sample.y]

\* self.transform(image / 255.0): every value v becomes (v/255 - mean_c) / std_c
Standardize(im) == [im EXCEPT !.scale = "normalized"]

Normalize(sample) ==
  [image1 |-> Standardize(sample.image1),
   image2 |-> Standardize(sample.image2),
   image3 |-> Standardize(sample.image3),
   image4 |-> Standardize(sample.image4),
   image5 |-> Standardize(sample.image5),
   y |-> sample.y]

\* the outcomes of the six tests random.random() <= prob of one transform
Coins(r, rs, hide, drop) ==
  [minimap |-> Flip(r, hide),
   dropout |-> [j \in 1..NumFrames |-> Flip(rs[j], drop[j])]]

\* transforms.Compose([RemoveMinimap, RemoveImage, SplitImages, ToTensor,
\* Normalize]) applied to {"image": im, "y": label}, the six tests coming out
\* as c says
TransformRest(m, label, c) ==
  IF m.kind = "raise"
  THEN [kind |-> "raise", err |-> m.err, image |-> m.image]
  ELSE LET rest(d) == [kind |-> "ok", image |-> d,
                       sample |-> Normalize(ToTensor(SplitImages(d, label)))]
       IN rest(RemoveImage(m.image, c.dropout))

Transform(im, label, c) ==
  TransformRest(RemoveMinimap(im, c.minimap), label, c)

RandomValues == 0..(Den - 1)
Probabilities == 0..Den
Draws == [1..NumFrames -> RandomValues]

\* ------------------------------------------------------ the directory
\* The files of dataset_dir that glob.glob("*.jpeg") can list, with what
\* io.imread gives for each: an H x W x 3 array, or the exception it raises.
\* /d_1/a_0.5,-1.0,0.3.jpeg
NameA ==
  <<"/", "d", "_", "1", "/", "a", "_", "0", ".", "5", ",", "-", "1", ".", "0", ",", "0", ".", "3", ".", "j", "p", "e", "g">>
\* /d_1/b_-1,1,0.jpeg
NameB ==
  <<"/", "d", "_", "1", "/", "b", "_", "-", "1", ",", "1", ",", "0", ".", "j", "p", "e", "g">>
\* /d_1/c_0,0,4.jpeg
NameC ==
  <<"/", "d", "_", "1", "/", "c", "_", "0", ",", "0", ",", "4", ".", "j", "p", "e", "g">>
\* /d_1/m_1,1,1.jpeg
NameM ==
  <<"/", "d", "_", "1", "/", "m", "_", "1", ",", "1", ",", "1", ".", "j", "p", "e", "g">>
\* /d_1/x.jpeg
NameX ==
  <<"/", "d", "_", "1", "/", "x", ".", "j", "p", "e", "g">>
\* /d_1/t_0,1,0.jpeg
NameT ==
  <<"/", "d", "_", "1", "/", "t", "_", "0", ",", "1", ",", "0", ".", "j", "p", "e", "g">>

Names == {NameA, NameB, NameC, NameM, NameX, NameT}

Disk(name) ==
  CASE name = NameA -> [status |-> "ok", h |-> 270, w |-> 400]
    [] name = NameB -> [status |-> "ok", h |-> 270, w |-> 403]
    [] name = NameC -> [status |-> "ValueError", h |-> 0, w |-> 0]
    [] name = NameM -> [status |-> "FileNotFoundError", h |-> 0, w |-> 0]
    [] name = NameX -> [status |-> "ok", h |-> 270, w |-> 400]
    [] name = NameT -> [status |-> "ok", h |-> 300, w |-> 400]

\* io.imread(img_name)
imread(name) ==
  IF Disk(name).status = "ok"
  THEN [kind |-> "ok", image |-> Array(name, Disk(name).h, Disk(name).w)]
  ELSE Raise(Disk(name).status, "imread")

\* an except clause naming ValueError alone
CaughtOnlyValueError(err) == err \in {"ValueError"}

\* except (ValueError, FileNotFoundError)
Caught(err) == err \in {"ValueError", "FileNotFoundError"}

\* what glob.glob can return: the listed files, each once, in any order
Listings ==
  {s \in UNION {[1..n -> Names] : n \in 0..MaxFiles} :
     \A i, j \in 1..Len(s) : i # j => s[i] # s[j]}

\* indexing that wraps every index into the list
ResolveWrapped(files, i) ==
  IF Len(files) = 0 THEN Raise("IndexError", "index")
  ELSE Value(files[(i % Len(files)) + 1])

\* self.dataset_files[idx]: Python's list indexing, negative indices included
Resolve(files, i) ==
  IF 0 <= i /\ i < Len(files) THEN Value(files[i + 1])
  ELSE IF -Len(files) <= i /\ i < 0 THEN Value(files[Len(files) + i + 1])
  ELSE Raise("IndexError", "index")

\* the label taken from the file the index names
LabelOfIndexedFile(name, keyboard) ==
  IF keyboard THEN KeyboardLabel(Resolve(dataset_files, idx).value)
  ELSE JoystickLabel(Resolve(dataset_files, idx).value)

\* the label of the file named name (lines 254-264)
Label(name, keyboard) ==
  IF keyboard THEN KeyboardLabel(name) ELSE JoystickLabel(name)

\* a choice that always gives the first file
RandomChoiceFirst(files) == {files[1]}

\* a choice that never gives the file just tried
RandomChoiceOther(files) == {files[i] : i \in 1..Len(files)} \ {img_name}

\* random.choice(self.dataset_files): any element of the list
RandomChoice(files) == {files[i] : i \in 1..Len(files)}

\* the hide_map_prob of the datasets read: never and always
HideConfigs == {0, Den}

\* a dropout configuration that passes __init__'s assertions
DropConfigs ==
  {[j \in 1..NumFrames |-> 0],
   [j \in 1..NumFrames |-> IF j % 2 = 0 THEN Den ELSE 0]}

Indices == (-(MaxFiles + 1))..(MaxFiles + 1)

\* ------------------------------------------------------ __len__, __getitem__
len == Len(dataset_files)

\* the files of self.dataset_files, and those io.imread decodes
Listed == {dataset_files[i] : i \in 1..len}
Decodable == {n \in Listed : Disk(n).status = "ok"}

InitGet ==
  /\ pc = "idle"
  /\ dataset_files \in Listings
  /\ hide_map_prob \in HideConfigs
  /\ dropout_images_prob \in DropConfigs
  /\ keyboard_dataset \in BOOLEAN
  /\ globbed = TRUE
  /\ args = None /\ idx = 0 /\ img_name = <<>> /\ image = None /\ y = None
  /\ result = None /\ printed = None /\ failed = FALSE /\ before = None /\ keys = 0
  /\ coins = None

\* img_name = self.dataset_files[idx]; image = None
GetItem(i) ==
  /\ pc = "idle"
  /\ idx' = i
  /\ LET f == Resolve(dataset_files, i)
     IN IF f.kind = "raise"
        THEN /\ result' = f
             /\ pc' = "done"
             /\ UNCHANGED img_name
        ELSE /\ img_name' = f.value
             /\ pc' = "decode"
             /\ UNCHANGED result
  /\ UNCHANGED <<args, dataset_files, hide_map_prob, dropout_images_prob,
                 keyboard_dataset, globbed, image, y, printed, failed, before,
                 coins, keys>>

\* one pass of the while loop that does not enter the except clause: io.imread
\* returns the array, or raises an exception the clause does not name, which
\* leaves __getitem__
Decode ==
  /\ pc = "decode"
  /\ \E d \in {imread(img_name)} :
       IF d.kind = "ok"
       THEN /\ image' = d.image
            /\ pc' = "decoded"
            /\ UNCHANGED result
       ELSE /\ ~Caught(d.err)
            /\ result' = d
            /\ pc' = "done"
            /\ UNCHANGED image
  /\ printed' = None
  /\ UNCHANGED <<args, dataset_files, hide_map_prob, dropout_images_prob,
                 keyboard_dataset, globbed, idx, img_name, y, failed, before,
                 coins, keys>>

\* one pass of the while loop whose io.imread raises a caught exception and
\* whose random.choice draws the file next
DecodeFail(next) ==
  /\ pc = "decode"
  /\ imread(img_name).kind = "raise"
  /\ Caught(imread(img_name).err)
  /\ next \in RandomChoice(dataset_files)
  /\ printed' = [kind |-> "diagnostic", file |-> img_name,
                 err |-> imread(img_name).err]
  /\ img_name' = next
  /\ failed' = TRUE
  /\ UNCHANGED <<pc, args, dataset_files, hide_map_prob, dropout_images_prob,
                 keyboard_dataset, globbed, idx, image, y, result, before,
                 coins, keys>>

\* the label, from img_name (lines 254-264)
LabelStep ==
  /\ pc = "decoded"
  /\ LET l == Label(img_name, keyboard_dataset)
     IN IF l.kind = "raise"
        THEN /\ result' = l
             /\ pc' = "done"
             /\ UNCHANGED y
        ELSE /\ y' = l
             /\ pc' = "labelled"
             /\ UNCHANGED result
  /\ UNCHANGED <<args, dataset_files, hide_map_prob, dropout_images_prob,
                 keyboard_dataset, globbed, idx, img_name, image, printed,
                 failed, before, coins, keys>>

\* return self.transform({"image": image, "y": y})
TransformStep ==
  /\ pc = "labelled"
  /\ \E c \in {Coins(r, rs, hide_map_prob, dropout_images_prob) :
                 r \in RandomValues, rs \in Draws} :
       /\ coins' = c
       /\ \E t \in {Transform(image, y.value, c)} :
            /\ image' = t.image
            /\ result' = IF t.kind = "raise" THEN Raise(t.err, "transform")
                         ELSE [kind |-> "return", sample |-> t.sample]
  /\ pc' = "done"
  /\ UNCHANGED <<args, dataset_files, hide_map_prob, dropout_images_prob,
                 keyboard_dataset, globbed, idx, img_name, y, printed, failed,
                 before, keys>>

NextGet ==
  \/ \E i \in Indices : GetItem(i)
  \/ Decode
  \/ \E next \in Names : DecodeFail(next)
  \/ LabelStep
  \/ TransformStep

SpecGet == InitGet /\ [][NextGet]_vars

\* random.choice is uniform: in a loop that never ends every file of the list
\* is drawn again and again, so a decodable one is drawn at some time; the
\* interpreter runs every other step. LabelStep and TransformStep have no guard
\* but pc and both change pc, so their weak fairness is that pc does not stay
\* at "decoded" or "labelled" for ever.
SpecGetFair ==
  /\ InitGet
  /\ [][NextGet]_vars
  /\ WF_vars(Decode)
  /\ []<>(pc \notin {"decoded", "labelled"})
  /\ WF_vars(\E next \in Decodable : DecodeFail(next))

\* ------------------------------------------------------ claims on __getitem__
InRange == -len <= idx /\ idx < len
Indexed == Resolve(dataset_files, idx).value
FailsNow == pc = "decode" /\ Disk(img_name).status \in {"ValueError", "FileNotFoundError"}

\* the decodable files that are samples of the dataset: captured at 270 rows
\* with 80 columns to each minimap, named as the naming contract says
SampleFiles == {NameA, NameB}

\* a sample as the caller gets it: 5 frames, channel first and normalized, each
\* a fifth of the decoded array, and a label
Complete(sample) ==
  /\ \A j \in 1..NumFrames :
       /\ Frame(sample, j).shape = <<Channels, Height(image), FrameWidth(image)>>
       /\ Frame(sample, j).layout = "CHW"
       /\ Frame(sample, j).scale = "normalized"
       /\ Frame(sample, j).src = image.src
  /\ Len(sample.y) >= 1

C3_Joystick(name) ==
  CASE name = NameA -> Value(<<<<5, 1>>, <<-1, 0>>, <<3, 1>>>>)
    [] name = NameB -> Value(<<<<-1, 0>>, <<1, 0>>, <<0, 0>>>>)
    [] name = NameC -> Value(<<<<0, 0>>, <<0, 0>>, <<4, 0>>>>)
    [] name = NameM -> Value(<<<<1, 0>>, <<1, 0>>, <<1, 0>>>>)
    [] name = NameT -> Value(<<<<0, 0>>, <<1, 0>>, <<0, 0>>>>)
    [] name = NameX -> Raise("ValueError", "label")

C3_Keyboard(name) ==
  CASE name = NameA -> Value(<<<<0, 0>>, <<-1, 0>>, <<1, 0>>>>)
    [] name = NameB -> Value(<<<<0, 0>>, <<-1, 0>>, <<-1, 0>>>>)
    [] name = NameC -> Value(<<<<0, 0>>, <<1, 0>>, <<-1, 0>>>>)
    [] name = NameM -> Value(<<<<-1, 0>>, <<-1, 0>>, <<-1, 0>>>>)
    [] name = NameT -> Value(<<<<0, 0>>, <<-1, 0>>, <<-1, 0>>>>)
    [] name = NameX -> Raise("ValueError", "label")

C3_Encoded(name) ==
  IF keyboard_dataset THEN C3_Keyboard(name) ELSE C3_Joystick(name)

\* C3: label and image come from one file, the file whose decode succeeded,
\* which is the last file tried: the label is what the name of that file
\* encodes (joystick: the floats of the last "_" token; keyboard:
\* keys2controller of the key digit), a name that encodes none raises, and
\* with no failed decode the file is the indexed one.
C3_LabelOfDecodedFile ==
  /\ image # None =>
       /\ image.src = img_name
       /\ Disk(img_name).status = "ok"
  /\ pc = "labelled" => y = C3_Encoded(image.src)
  /\ (pc = "done" /\ image # None /\ C3_Encoded(image.src).kind = "raise")
       => result = C3_Encoded(image.src)
  /\ (pc = "done" /\ result.kind = "return") =>
       /\ Value(result.sample.y) = C3_Encoded(image.src)
       /\ \A j \in 1..NumFrames : Frame(result.sample, j).src = image.src
  /\ (pc # "idle" /\ InRange /\ ~failed) =>
       /\ img_name = Indexed
       /\ printed = None

C3_Witness ==
  /\ pc = "done"
  /\ ~keyboard_dataset
  /\ failed
  /\ Indexed = NameC
  /\ image.src = NameA
  /\ result.kind = "return"
  /\ result.sample.y = <<<<5, 1>>, <<-1, 0>>, <<3, 1>>>>

\* C4 as stated: every index outside [0, size()) raises the indexing error,
\* with no decode, no draw, no diagnostic and no sample.
C4_Original ==
  (pc # "idle" /\ (idx < 0 \/ idx >= len)) =>
    /\ pc = "done"
    /\ result = Raise("IndexError", "index")
    /\ image = None
    /\ failed = FALSE
    /\ printed = None

\* C4 as amended: every index with idx >= size() or idx < -size() raises the
\* indexing error, with no decode, no draw, no diagnostic and no sample; an
\* index in [-size(), 0) raises no indexing error and addresses the file
\* size() + idx.
C4_IndexError ==
  /\ (pc # "idle" /\ (idx < -len \/ idx >= len)) =>
       /\ pc = "done"
       /\ result = Raise("IndexError", "index")
       /\ image = None
       /\ failed = FALSE
       /\ printed = None
       /\ img_name = <<>>
  /\ (pc # "idle" /\ -len <= idx /\ idx < 0) =>
       /\ result # Raise("IndexError", "index")
       /\ ~failed => img_name = dataset_files[len + idx + 1]

C4_Witness ==
  /\ pc = "done"
  /\ len > 0
  /\ idx = len
  /\ result = Raise("IndexError", "index")

\* C8 as stated: after a decode failure the file tried next is a different
\* file from the one that just failed.
C8_Original == [][FailsNow => img_name' # img_name]_vars

\* C8 as amended: after a decode failure the file tried next is drawn from the
\* full enumerated list, whatever the requested index: every listed file can
\* be the next one, the file that just failed included.
C8_Redraw ==
  /\ [](FailsNow => \A n \in Listed : ENABLED DecodeFail(n))
  /\ [][FailsNow => img_name' \in Listed]_vars

C8_Witness ==
  /\ pc = "decode"
  /\ failed
  /\ printed.kind = "diagnostic"
  /\ printed.file = img_name
  /\ len > 1

\* ------------------------------------------------------ __init__
Dirs == {<<"/", "d", "_", "1">>}
ProbArgs == {-1, 0, 1, Den, Den + 1}
DropLens == {4, 5, 6}
DropArgs == UNION {[1..n -> ProbArgs] : n \in DropLens}
CtorArgs ==
  [dataset_dir : Dirs, hide_map_prob : ProbArgs,
   dropout_images_prob : DropArgs, keyboard_dataset : BOOLEAN]

\* the range test without its lower bound
InUnitNoLower(prob) == prob <= Den

\* 0 <= prob <= 1.0
InUnit(prob) == 0 <= prob /\ prob <= Den

\* the three assertions of __init__, in their order
Asserted(a) ==
  IF ~InUnit(a.hide_map_prob) THEN FALSE
  ELSE IF Len(a.dropout_images_prob) # NumFrames THEN FALSE
  ELSE \A i \in 1..Len(a.dropout_images_prob) : InUnit(a.dropout_images_prob[i])

InitNew ==
  /\ pc = "new"
  /\ args \in CtorArgs
  /\ dataset_files = None /\ hide_map_prob = None
  /\ dropout_images_prob = None /\ keyboard_dataset = None
  /\ globbed = FALSE
  /\ idx = 0 /\ img_name = <<>> /\ image = None /\ y = None /\ result = None
  /\ printed = None /\ failed = FALSE /\ before = None /\ coins = None /\ keys = 0

\* Tedd1104Dataset(dataset_dir, hide_map_prob, dropout_images_prob,
\* keyboard_dataset)
Construct ==
  /\ pc = "new"
  /\ IF ~Asserted(args)
     THEN /\ result' = Raise("AssertionError", "init")
          /\ pc' = "failed"
          /\ UNCHANGED <<dataset_files, hide_map_prob, dropout_images_prob,
                         keyboard_dataset, globbed>>
     ELSE /\ hide_map_prob' = args.hide_map_prob
          /\ dropout_images_prob' = args.dropout_images_prob
          /\ keyboard_dataset' = args.keyboard_dataset
          /\ globbed' = TRUE
          /\ dataset_files' \in Listings
          /\ result' = Value("Tedd1104Dataset")
          /\ pc' = "idle"
  /\ UNCHANGED <<args, idx, img_name, image, y, printed, failed, before, coins,
                 keys>>

NextInit == Construct

SpecInit == InitNew /\ [][NextInit]_vars

\* the configurations the validation is to reject
C5_Rejected ==
  \/ args.hide_map_prob \notin 0..Den
  \/ Len(args.dropout_images_prob) # 5
  \/ \E i \in 1..Len(args.dropout_images_prob) :
       args.dropout_images_prob[i] \notin 0..Den

\* C5: construction fails, with no dataset object and no directory enumeration,
\* whenever hide_map_prob is outside [0,1], or dropout_images_prob does not
\* have exactly 5 entries, or one of its entries is outside [0,1]; and it
\* succeeds for every other configuration.
C5_Construction ==
  pc # "new" =>
    IF C5_Rejected
    THEN /\ pc = "failed"
         /\ result = Raise("AssertionError", "init")
         /\ ~globbed
         /\ dataset_files = None /\ hide_map_prob = None
         /\ dropout_images_prob = None /\ keyboard_dataset = None
    ELSE /\ pc = "idle"
         /\ result = Value("Tedd1104Dataset")
         /\ globbed
         /\ hide_map_prob = args.hide_map_prob
         /\ dropout_images_prob = args.dropout_images_prob
         /\ keyboard_dataset = args.keyboard_dataset

C5_Witness ==
  /\ pc = "failed"
  /\ args.hide_map_prob = Den
  /\ Len(args.dropout_images_prob) = 5
  /\ args.dropout_images_prob[3] = -1
  /\ \A i \in {1, 2, 4, 5} : args.dropout_images_prob[i] = 0
  /\ ~globbed

\* ------------------------------------------------------ the transforms alone
Raw == <<"r", "a", "w">>
SomeLabel == <<Float(1), Float(-1), Float(0)>>

\* height and width of the arrays given to the transform chain
Shapes ==
  {<<270, 400>>, <<270, 403>>, <<270, 399>>, <<270, 395>>, <<271, 400>>,
   <<300, 400>>, <<215, 400>>, <<100, 50>>, <<2, 11>>}

SmallShapes == (0..MaxH) \X (0..MaxW)

StageConfigs == DropConfigs \cup {[j \in 1..NumFrames |-> Den]}

InitStages(shapes, first) ==
  /\ pc = first
  /\ \E s \in shapes : image = Array(Raw, s[1], s[2])
  /\ before = image
  /\ y = Value(SomeLabel)
  /\ hide_map_prob \in Probabilities
  /\ dropout_images_prob \in StageConfigs
  /\ keyboard_dataset = FALSE /\ globbed = FALSE /\ dataset_files = <<>>
  /\ args = None /\ idx = 0 /\ img_name = <<>> /\ result = None
  /\ printed = None /\ failed = FALSE /\ keys = 0
  /\ coins = [minimap |-> FALSE, dropout |-> <<>>]

\* RemoveMinimap(hide_map_prob)(sample)
MinimapStage ==
  /\ pc = "minimap"
  /\ \E r \in RandomValues :
       /\ coins' = [minimap |-> Flip(r, hide_map_prob), dropout |-> <<>>]
       /\ \E m \in {RemoveMinimap(image, Flip(r, hide_map_prob))} :
            /\ image' = m.image
            /\ IF m.kind = "raise"
               THEN /\ result' = Raise(m.err, "transform")
                    /\ pc' = "done"
               ELSE /\ pc' = "dropout"
                    /\ UNCHANGED result
  /\ before' = image
  /\ UNCHANGED <<args, dataset_files, hide_map_prob, dropout_images_prob,
                 keyboard_dataset, globbed, idx, img_name, y, printed, failed,
                 keys>>

\* RemoveImage(dropout_images_prob)(sample)
DropoutStage ==
  /\ pc = "dropout"
  /\ \E flips \in {[j \in 1..NumFrames |-> Flip(rs[j], dropout_images_prob[j])] :
                     rs \in Draws} :
       /\ coins' = [coins EXCEPT !.dropout = flips]
       /\ image' = RemoveImage(image, flips)
  /\ before' = image
  /\ pc' = "split"
  /\ UNCHANGED <<args, dataset_files, hide_map_prob, dropout_images_prob,
                 keyboard_dataset, globbed, idx, img_name, y, result, printed,
                 failed, keys>>

\* SplitImages()(sample)
SplitStage ==
  /\ pc = "split"
  /\ result' = [kind |-> "return", sample |-> SplitImages(image, y.value)]
  /\ before' = image
  /\ pc' = "tensor"
  /\ UNCHANGED <<args, dataset_files, hide_map_prob, dropout_images_prob,
                 keyboard_dataset, globbed, idx, img_name, image, y, printed,
                 failed, coins, keys>>

\* Normalize()(ToTensor()(sample))
TensorStage ==
  /\ pc = "tensor"
  /\ result' = [kind |-> "return",
                sample |-> Normalize(ToTensor(result.sample))]
  /\ pc' = "done"
  /\ UNCHANGED <<args, dataset_files, hide_map_prob, dropout_images_prob,
                 keyboard_dataset, globbed, idx, img_name, image, y, printed,
                 failed, before, coins, keys>>

\* the chain of transforms.Compose on arrays of any shape
InitAug == InitStages(Shapes, "minimap")
NextAug == MinimapStage \/ DropoutStage \/ SplitStage \/ TensorStage
SpecAug == InitAug /\ [][NextAug]_vars

\* RemoveImage then SplitImages (and the conversion) on small arrays of every
\* height up to MaxH and every width up to MaxW
InitFrames == InitStages(SmallShapes, "dropout")
NextFrames == DropoutStage \/ SplitStage \/ TensorStage
SpecFrames == InitFrames /\ [][NextFrames]_vars

Rows(im) == 0..(Height(im) - 1)
Cols(im) == 0..(Width(im) - 1)
Unchanged(a, b) ==
  /\ a.shape = b.shape
  /\ \A r \in Rows(a), c \in Cols(a) : Pixel(a, r, c) = Pixel(b, r, c)

AfterMinimap == pc = "dropout" \/ (pc = "done" /\ result.kind = "raise")

\* C7 as stated: a stage configured with probability 0 never modifies the
\* image, whatever random.random() returns, 0.0 included: RemoveMinimap with
\* hide_map_prob = 0 leaves every pixel as it was, and so does RemoveImage
\* with five probabilities 0.
C7_Original ==
  /\ (AfterMinimap /\ hide_map_prob = 0) => Unchanged(image, before)
  /\ (pc = "split" /\ \A j \in 1..NumFrames : dropout_images_prob[j] = 0) =>
       Unchanged(image, before)

\* the pixels of the 5 minimap regions: rows from 215 on, 80 columns from the
\* left edge of each slot
C9_InRegion(im, r, c) ==
  /\ r >= MinimapTop
  /\ \E j \in 0..4 : j * (Width(im) \div 5) <= c /\ c < j * (Width(im) \div 5) + 80

\* C9 as stated: when the flip succeeds (always, with hide_map_prob = 1)
\* RemoveMinimap ends without error for every height and width and zeroes,
\* for each slot j in 0..4, exactly rows [215, end) and columns
\* [j*width, j*width + 80) clipped to the array, every other pixel and the
\* label staying as they were; one flip governs the 5 slots.
C9_Original ==
  AfterMinimap =>
    /\ hide_map_prob = Den => coins.minimap
    /\ result.kind # "raise"
    /\ y = Value(SomeLabel)
    /\ image.shape = before.shape
    /\ \A r \in Rows(image), c \in Cols(image) :
         Pixel(image, r, c) =
           IF coins.minimap /\ C9_InRegion(before, r, c) THEN Zeros
           ELSE Pixel(before, r, c)

\* frame j of the sample is slot j of the array, all zero or all original
C10_Frames ==
  pc = "tensor" =>
    LET w == Width(image) \div 5
        original == Array(image.src, Height(image), Width(image))
    IN /\ image = before
       /\ \A j \in 1..5 :
            LET f == Frame(result.sample, j)
            IN /\ f.shape = <<Height(image), w, 3>>
               /\ \A r \in Rows(f), c \in Cols(f) :
                    /\ Pixel(f, r, c) = Pixel(image, r, (j - 1) * w + c)
                    /\ Pixel(f, r, c) =
                         IF coins.dropout[j] THEN Zeros
                         ELSE Pixel(original, r, (j - 1) * w + c)
       /\ result.sample.y = y.value

\* C10: RemoveImage and SplitImages use the same slots [j*w, (j+1)*w) with
\* w = floor(W/5), for every width W: SplitImages changes no pixel and its 5
\* frames, left to right, are the first 5w columns of the array (the W mod 5
\* columns left are in no frame); after RemoveImage and SplitImages frame j is
\* entirely zero when its own flip succeeded and otherwise pixel for pixel the
\* slot j of the original array, never zeroed in part; the 5 flips are drawn
\* one by one, so every subset of the frames whose flip can succeed is dropped
\* by some draws.
C10_Slots ==
  /\ pc = "dropout" =>
       \A flips \in [1..NumFrames -> BOOLEAN] :
         (\A j \in 1..NumFrames : \E r \in RandomValues :
            flips[j] = Flip(r, dropout_images_prob[j]))
         => \E rs \in Draws :
              /\ flips = [j \in 1..NumFrames |-> Flip(rs[j], dropout_images_prob[j])]
              /\ \A j \in 1..NumFrames, c \in Cols(image) :
                   (j - 1) * FrameWidth(image) <= c /\ c < j * FrameWidth(image)
                   => (Pixel(RemoveImage(image, flips), 0, c) = Zeros) =
                        (flips[j] /\ Height(image) > 0)
  /\ C10_Frames

C10_Witness ==
  /\ pc = "tensor"
  /\ Height(image) = 2 /\ Width(image) = 11
  /\ coins.dropout = <<FALSE, TRUE, FALSE, TRUE, TRUE>>
  /\ Pixel(result.sample.image1, 1, 1) = [from |-> Raw, row |-> 1, col |-> 1]
  /\ Pixel(result.sample.image2, 1, 1) = Zeros
  /\ Pixel(result.sample.image3, 0, 0) = [from |-> Raw, row |-> 0, col |-> 4]
  /\ Pixel(result.sample.image5, 1, 1) = Zeros

\* ------------------------------------------------------ keys2controller alone
InitKeys ==
  /\ pc = "keys"
  /\ keys \in -MaxKey..MaxKey
  /\ y = None
  /\ args = None /\ dataset_files = <<>> /\ hide_map_prob = 0
  /\ dropout_images_prob = <<>> /\ keyboard_dataset = TRUE /\ globbed = FALSE
  /\ idx = 0 /\ img_name = <<>> /\ image = None /\ result = None
  /\ printed = None /\ failed = FALSE /\ before = None /\ coins = None

CallKeys ==
  /\ pc = "keys"
  /\ y' = Value(keys2controller(keys))
  /\ result' = Value(keys2controller(keys))
  /\ pc' = "done"
  /\ UNCHANGED <<args, dataset_files, hide_map_prob, dropout_images_prob,
                 keyboard_dataset, globbed, idx, img_name, image, printed,
                 failed, before, coins, keys>>

NextKeys == CallKeys

SpecKeys == InitKeys /\ [][NextKeys]_vars

\* the table of key codes 1..8
C6_Table ==
  <<<<-1, -1, -1>>, <<1, -1, -1>>, <<0, -1, 1>>, <<0, 1, -1>>,
    <<-1, -1, 1>>, <<-1, 1, -1>>, <<1, -1, 1>>, <<1, 1, -1>>>>

\* C6: keys2controller is total on the integers: keys 1..8 give exactly the
\* (steer, throttle, brake) triples of the table, every other integer gives
\* (0.0, -1.0, -1.0), and no call raises.
C6_KeysTable ==
  pc = "done" =>
    /\ result.kind = "value"
    /\ LET want == IF keys \in 1..8 THEN C6_Table[keys] ELSE <<0, -1, -1>>
       IN result.value = <<Float(want[1]), Float(want[2]), Float(want[3])>>

C6_Witness ==
  /\ pc = "done"
  /\ keys = 3
  /\ result = Value(<<Float(0), Float(-1), Float(1)>>)
====
